---- MODULE Spec2Model ----
(***************************************************************************)
(* Model of typescript/src/application/application.ts: the Application     *)
(* wrapper, its private helpers callMcpTool and parseJSON, and its six     *)
(* public operations.                                                      *)
(*                                                                         *)
(* Strings that the code builds, joins, parses or searches are modelled as *)
(* sequences of tokens (each token a chunk of characters), so that         *)
(* concatenation is \o, the newline join and JSON.parse are computed, and  *)
(* "contains" is a contiguous-subsequence test.  Identifiers that are only *)
(* copied (request ids, tool names, keys) are TLA+ strings.                *)
(***************************************************************************)
EXTENDS Integers, Sequences, FiniteSets, TLC

\* ------------------------------------------------------------------ bounds
MaxContent == 2
NumSlots == 2

\* ------------------------------------------------------- JS value helpers
None == [given |-> FALSE, v |-> ""]
Some(x) == [given |-> TRUE, v |-> x]
NoneB == [given |-> FALSE, v |-> FALSE]
SomeB(b) == [given |-> TRUE, v |-> b]

\* default parameter value: `param = dflt` in a signature
Default(p, dflt) == IF p.given THEN p.v ELSE dflt

JStr(s) == [t |-> "string", s |-> s, n |-> 0, b |-> FALSE]
JNum(n) == [t |-> "number", s |-> "", n |-> n, b |-> FALSE]
JBool(b) == [t |-> "boolean", s |-> "", n |-> 0, b |-> b]

\* JSON values produced by JSON.parse: objects and arrays, uniformly tagged
JObj(fields) == [t |-> "obj", fields |-> fields, elems |-> <<>>]
JArr(elems) == [t |-> "arr", fields |-> <<>>, elems |-> elems]

RECURSIVE Join(_, _)
Join(parts, sep) ==
  IF Len(parts) = 0 THEN <<>>
  ELSE IF Len(parts) = 1 THEN parts[1]
  ELSE parts[1] \o sep \o Join(Tail(parts), sep)

Contains(s, t) ==
  \E i \in 0..Len(s) : i + Len(t) <= Len(s) /\ SubSeq(s, i + 1, i + Len(t)) = t

\* ------------------------------------------------------ JSON.stringify(args)
Literal(v) ==
  IF v.t = "string" THEN "\"" \o v.s \o "\""
  ELSE IF v.t = "number" THEN ToString(v.n)
  ELSE IF v.b THEN "true" ELSE "false"

Member(kv) == <<"\"" \o kv[1] \o "\"", ":", Literal(kv[2])>>

JSONStringify(args) ==
  <<"{">> \o Join([i \in 1..Len(args) |-> Member(args[i])], <<",">>) \o <<"}">>

\* ---------------------------------------------------------- JSON.parse(text)
ObjTokens == {"o1", "o2"}

DecodeObj(tok) ==
  IF tok = "o1"
  THEN JObj(<< <<"pname", "\"chrome\"">>, <<"pid", "1">> >>)
  ELSE JObj(<< <<"name", "\"calc\"">>, <<"start_cmd", "\"calc.exe\"">>,
               <<"work_directory", "\"/opt\"">> >>)

ParseFail == [ok |-> FALSE, val |-> JArr(<<>>), next |-> 0]

RECURSIVE SkipWs(_, _)
SkipWs(t, i) == IF i <= Len(t) /\ t[i] = "\n" THEN SkipWs(t, i + 1) ELSE i

RECURSIVE ParseValue(_, _)
RECURSIVE ParseElems(_, _, _)
ParseValue(t, i) ==
  LET j == SkipWs(t, i) IN
  IF j > Len(t) THEN ParseFail
  ELSE IF t[j] \in ObjTokens THEN [ok |-> TRUE, val |-> DecodeObj(t[j]), next |-> j + 1]
  ELSE IF t[j] = "["
       THEN LET k == SkipWs(t, j + 1) IN
            IF k <= Len(t) /\ t[k] = "]"
            THEN [ok |-> TRUE, val |-> JArr(<<>>), next |-> k + 1]
            ELSE ParseElems(t, k, <<>>)
  ELSE ParseFail

ParseElems(t, i, acc) ==
  LET v == ParseValue(t, i) IN
  IF ~v.ok THEN ParseFail
  ELSE LET k == SkipWs(t, v.next) IN
       IF k > Len(t) THEN ParseFail
       ELSE IF t[k] = "," THEN ParseElems(t, k + 1, Append(acc, v.val))
       ELSE IF t[k] = "]" THEN [ok |-> TRUE, val |-> JArr(Append(acc, v.val)), next |-> k + 1]
       ELSE ParseFail

JSONParse(t) ==
  LET v == ParseValue(t, 1) IN
  IF v.ok /\ SkipWs(t, v.next) > Len(t)
  THEN [threw |-> FALSE, val |-> v.val, err |-> <<>>]
  ELSE [threw |-> TRUE, val |-> JArr(<<>>), err |-> <<"SyntaxError", ": ", "Unexpected token">>]

\* An Error value: its name and its message; `${error}` is "<name>: <message>"
Err(name, message) == [name |-> name, message |-> message]
NoErr == Err("", <<>>)
ErrorToString(e) == <<e.name, ": ">> \o e.message

parseJSON(jsonString) ==
  LET p == JSONParse(jsonString) IN
  IF p.threw
  THEN [threw |-> TRUE, val |-> p.val,
        err |-> Err("Error", <<"Failed to parse JSON", ": ">> \o p.err)]
  ELSE [threw |-> FALSE, val |-> p.val, err |-> NoErr]

\* ------------------------------------------------- the six public operations
Ops == {"getInstalledApps", "startApp", "stopAppByPName", "stopAppByPID",
        "stopAppByCmd", "listVisibleApps"}
ListOps == {"getInstalledApps", "startApp", "listVisibleApps"}

ToolName(op) ==
  CASE op = "getInstalledApps" -> "get_installed_apps"
    [] op = "startApp" -> "start_app"
    [] op = "stopAppByPName" -> "stop_app_by_pname"
    [] op = "stopAppByPID" -> "stop_app_by_pid"
    [] op = "stopAppByCmd" -> "stop_app_by_cmd"
    [] op = "listVisibleApps" -> "list_visible_apps"

\* third argument of each operation's call to callMcpTool
DefaultErrorMsg(op) ==
  CASE op = "getInstalledApps" -> "Failed to get installed apps"
    [] op = "startApp" -> "Failed to start app"
    [] op = "stopAppByPName" -> "Failed to stop app by pname"
    [] op = "stopAppByPID" -> "Failed to stop app by pid"
    [] op = "stopAppByCmd" -> "Failed to stop app by command"
    [] op = "listVisibleApps" -> "Failed to list visible apps"

\* variant: a catch block with a generic prefix
CatchPrefixGeneric(op) == "Operation failed"

\* text before ": ${error}" in each operation's catch block
CatchPrefix(op) ==
  CASE op = "getInstalledApps" -> "Failed to get installed apps"
    [] op = "startApp" -> "Failed to start app"
    [] op = "stopAppByPName" -> "Failed to stop app by pname"
    [] op = "stopAppByPID" -> "Failed to stop app by pid"
    [] op = "stopAppByCmd" -> "Failed to stop app by command"
    [] op = "listVisibleApps" -> "Failed to list visible apps"

\* actual parameters of a call; fields an operation does not take stay at
\* their neutral value
NoParams ==
  [startMenu |-> NoneB, desktop |-> NoneB, ignoreSystemApps |-> NoneB,
   startCmd |-> "", workDirectory |-> None, activity |-> None,
   pname |-> "", pid |-> 0, stopCmd |-> ""]

getInstalledAppsArgs(p) ==
  << <<"start_menu", JBool(Default(p.startMenu, TRUE))>>,
     <<"desktop", JBool(Default(p.desktop, TRUE))>>,
     <<"ignore_system_apps", JBool(Default(p.ignoreSystemApps, TRUE))>> >>

\* variant: optional arguments sent even when empty
startAppArgsNoOmit(p) ==
  << <<"start_cmd", JStr(p.startCmd)>>,
     <<"work_directory", JStr(Default(p.workDirectory, ""))>>,
     <<"activity", JStr(Default(p.activity, ""))>> >>

startAppArgs(p) ==
  LET workDirectory == Default(p.workDirectory, "")
      activity == Default(p.activity, "")
  IN << <<"start_cmd", JStr(p.startCmd)>> >>
     \o (IF workDirectory # "" THEN << <<"work_directory", JStr(workDirectory)>> >> ELSE <<>>)
     \o (IF activity # "" THEN << <<"activity", JStr(activity)>> >> ELSE <<>>)

stopAppByPNameArgs(p) == << <<"pname", JStr(p.pname)>> >>
stopAppByPIDArgs(p) == << <<"pid", JNum(p.pid)>> >>
stopAppByCmdArgs(p) == << <<"stop_cmd", JStr(p.stopCmd)>> >>
listVisibleAppsArgs(p) == <<>>

BuildArgs(op, p) ==
  CASE op = "getInstalledApps" -> getInstalledAppsArgs(p)
    [] op = "startApp" -> startAppArgs(p)
    [] op = "stopAppByPName" -> stopAppByPNameArgs(p)
    [] op = "stopAppByPID" -> stopAppByPIDArgs(p)
    [] op = "stopAppByCmd" -> stopAppByCmdArgs(p)
    [] op = "listVisibleApps" -> listVisibleAppsArgs(p)

\* ------------------------------------------------------------ callMcpTool
NoRequest == [authorization |-> <<>>, sessionId |-> "", name |-> "", args |-> <<>>]

\* variant: a failing session accessor is ignored and the call goes out
callMcpToolRequestNoThrow(sess, toolName, args, sessionThrows) ==
  [threw |-> FALSE, err |-> NoErr,
   request |-> [authorization |-> <<"Bearer ", sess.apiKey>>,
                sessionId |-> sess.sessionId,
                name |-> toolName,
                args |-> JSONStringify(args)]]

\* lines 82-95: everything up to the await.  sessionThrows: one of the
\* session accessors (getAPIKey, getSessionId, getClient) throws.
callMcpToolRequest(sess, toolName, args, sessionThrows) ==
  IF sessionThrows
  THEN [threw |-> TRUE, err |-> Err("Error", <<"session closed">>), request |-> NoRequest]
  ELSE [threw |-> FALSE, err |-> NoErr,
        request |-> [authorization |-> <<"Bearer ", sess.apiKey>>,
                     sessionId |-> sess.sessionId,
                     name |-> toolName,
                     args |-> JSONStringify(args)]]

\* content items of a response payload
ItemTruthyText(item) ==
  \/ item.kind = "string" /\ item.text # <<>>
  \/ item.kind = "number"

ItemHasStringText(item) == item.kind = "string" /\ item.text # <<>>

NoContent == [kind |-> "absent", items |-> <<>>]

NoCallResult ==
  [statusCode |-> 0, isError |-> FALSE, hasRequestId |-> FALSE, requestId |-> "",
   hasContent |-> FALSE, content |-> <<>>, hasTextContent |-> FALSE, textContent |-> <<>>]
NoCall == [threw |-> FALSE, err |-> NoErr, result |-> NoCallResult]

\* spec: "request id is extracted from the transport response's metadata
\* when present, else absent"
extractRequestId(response) ==
  IF response.hasRequestId THEN Some(response.requestId) ELSE None

\* variant: the first content item's text is never used
IsErrorThrownDefaultOnly(data, defaultErrorMsg) == Err("Error", <<defaultErrorMsg>>)

\* lines 118-133: the error chosen when data.isError === true
IsErrorThrown(data, defaultErrorMsg) ==
  IF data.content.kind = "array" /\ Len(data.content.items) > 0
     /\ ItemTruthyText(data.content.items[1])
  THEN Err("Error", data.content.items[1].text)
  ELSE Err("Error", <<defaultErrorMsg>>)

\* variant: the typeof item.text === "string" test is missing
TextPartsLoose(content) == SelectSeq(content, ItemTruthyText)

\* lines 141-152: textParts joined by newline
TextParts(content) == SelectSeq(content, ItemHasStringText)
TextContent(content) ==
  LET textParts == TextParts(content)
  IN Join([i \in 1..Len(textParts) |-> textParts[i].text], <<"\n">>)

\* variant: the error flag is honoured only when content came with it
IsErrorOnlyWithContent(data) == data.isError = "true" /\ data.content.kind = "array"

IsError(data) == data.isError = "true"

\* lines 97-156 inside the try: the thrown error or the populated result
callMcpToolBody(response, defaultErrorMsg) ==
  IF response.kind = "reject"
  THEN [threw |-> TRUE, err |-> Err("Error", response.error), result |-> NoCallResult]
  ELSE IF response.kind = "undefined"
  THEN [threw |-> TRUE,
        err |-> Err("TypeError", <<"Cannot read properties of undefined">>),
        result |-> NoCallResult]
  ELSE IF response.kind \in {"nobody", "nodata"}
  THEN [threw |-> TRUE, err |-> Err("Error", <<"Invalid response data format">>),
        result |-> NoCallResult]
  ELSE IF IsError(response)
  THEN [threw |-> TRUE, err |-> IsErrorThrown(response, defaultErrorMsg),
        result |-> NoCallResult]
  ELSE LET rid == extractRequestId(response)
           isArr == response.content.kind = "array"
           items == response.content.items
       IN [threw |-> FALSE, err |-> NoErr,
           result |-> [statusCode |-> response.statusCode,
                       isError |-> FALSE,
                       hasRequestId |-> rid.given, requestId |-> rid.v,
                       hasContent |-> isArr,
                       content |-> IF isArr THEN items ELSE <<>>,
                       hasTextContent |-> isArr /\ Len(items) > 0,
                       textContent |-> IF isArr /\ Len(items) > 0
                                       THEN TextContent(items) ELSE <<>>]]

\* lines 157-160: the catch wraps whatever was thrown into an APIError
callMcpToolCatch(toolName, thrown) ==
  Err("APIError", <<"Failed to call ", toolName, ": ">> \o ErrorToString(thrown))

callMcpToolResume(toolName, defaultErrorMsg, response) ==
  LET b == callMcpToolBody(response, defaultErrorMsg) IN
  IF b.threw
  THEN [threw |-> TRUE, err |-> callMcpToolCatch(toolName, b.err), result |-> b.result]
  ELSE b

\* --------------------------------------------------- operation result records
NoResult ==
  [raised |-> FALSE, success |-> FALSE, requestId |-> "", hasData |-> FALSE,
   data |-> JArr(<<>>), errorMessage |-> <<>>]

\* the record returned from an operation's catch block
FailureResult(op, error) ==
  [raised |-> FALSE, success |-> FALSE, requestId |-> "",
   hasData |-> op \in ListOps, data |-> JArr(<<>>),
   errorMessage |-> <<CatchPrefix(op), ": ">> \o ErrorToString(error)]

\* variant: the request id of the response is not copied
SuccessResultNoRequestId(op, callResult, data) ==
  [raised |-> FALSE, success |-> TRUE, requestId |-> "",
   hasData |-> op \in ListOps, data |-> data, errorMessage |-> <<>>]

\* the record returned at the end of an operation's try block
SuccessResult(op, callResult, data) ==
  [raised |-> FALSE, success |-> TRUE,
   requestId |-> IF callResult.hasRequestId /\ callResult.requestId # ""
                 THEN callResult.requestId ELSE "",
   hasData |-> op \in ListOps, data |-> data, errorMessage |-> <<>>]

\* `if (result.textContent)`
TextContentTruthy(callResult) ==
  callResult.hasTextContent /\ callResult.textContent # <<>>

\* variant: parseJSON is called outside the try block
OpFinishUncaughtParse(op, call) ==
  IF call.threw THEN FailureResult(op, call.err)
  ELSE IF op \in ListOps /\ TextContentTruthy(call.result)
       THEN LET p == parseJSON(call.result.textContent) IN
            IF p.threw THEN [NoResult EXCEPT !.raised = TRUE]
            ELSE SuccessResult(op, call.result, p.val)
       ELSE SuccessResult(op, call.result, JArr(<<>>))

\* variant: the parsed array is never assigned to the returned data
OpFinishNoParse(op, call) ==
  IF call.threw THEN FailureResult(op, call.err)
  ELSE IF op \in ListOps /\ TextContentTruthy(call.result)
       THEN LET p == parseJSON(call.result.textContent) IN
            IF p.threw THEN FailureResult(op, p.err)
            ELSE SuccessResult(op, call.result, JArr(<<>>))
       ELSE SuccessResult(op, call.result, JArr(<<>>))

\* an operation from the return of callMcpTool to its own return
OpFinish(op, call) ==
  IF call.threw THEN FailureResult(op, call.err)
  ELSE IF op \in ListOps /\ TextContentTruthy(call.result)
       THEN LET p == parseJSON(call.result.textContent) IN
            IF p.threw THEN FailureResult(op, p.err)
            ELSE SuccessResult(op, call.result, p.val)
       ELSE SuccessResult(op, call.result, JArr(<<>>))

\* ------------------------------------------------------------------ state
VARIABLES
  session,     \* this.session: the injected session (apiKey, sessionId)
  pc,          \* per invocation: "idle", "awaiting", "settled", "done"
  frame,       \* per invocation: the operation, its parameters and its args
  inflight,    \* per invocation: the request handed to client.callMcpTool
  dispatched,  \* per invocation: number of client.callMcpTool calls made
  settlement,  \* per invocation: how the awaited promise settled
  callResult,  \* per invocation: outcome of callMcpTool
  result       \* per invocation: the record the operation returned

vars == <<session, pc, frame, inflight, dispatched, settlement, callResult, result>>

Slots == 1..NumSlots
SeqSlots == {1}

NoFrame == [op |-> "", params |-> NoParams, args |-> <<>>, sessionThrows |-> FALSE]

\* ------------------------------------------------ transport outcomes (inputs)
ItemNull == [kind |-> "null", text |-> <<>>]
ItemNoText == [kind |-> "notext", text |-> <<>>]
ItemNumber == [kind |-> "number", text |-> <<"7">>]
ItemText(t) == [kind |-> "string", text |-> t]

Texts == { <<>>, <<"[">>, <<"]">>, <<"o1">>, <<"[", "o1">>,
           <<"[", "o1", ",", "o2", "]">>, <<"boom">> }
Items == {ItemNull, ItemNoText, ItemNumber} \cup {ItemText(t) : t \in Texts}

Contents ==
  {NoContent, [kind |-> "object", items |-> <<>>]}
  \cup {[kind |-> "array", items |-> c] : c \in UNION {[1..k -> Items] : k \in 0..MaxContent}}

NoSettlement ==
  [kind |-> "none", error |-> <<>>, statusCode |-> 0, hasRequestId |-> FALSE,
   requestId |-> "", isError |-> "absent", content |-> NoContent]

Rejected == [NoSettlement EXCEPT !.kind = "reject", !.error = <<"ECONNRESET">>]
Malformed == {[NoSettlement EXCEPT !.kind = k] : k \in {"undefined", "nobody", "nodata"}}

DataResponse(isError, content, hasRid) ==
  [kind |-> "data", error |-> <<>>, statusCode |-> 200, hasRequestId |-> hasRid,
   requestId |-> IF hasRid THEN "req-1" ELSE "", isError |-> isError, content |-> content]

Responses ==
  {Rejected} \cup Malformed
  \cup {DataResponse(e, c, r) : e \in {"true", "false", "absent"}, c \in Contents, r \in BOOLEAN}

SmallResponses ==
  { Rejected,
    DataResponse("true", [kind |-> "array", items |-> <<ItemText(<<"boom">>)>>], TRUE),
    DataResponse("false", [kind |-> "array", items |-> <<ItemText(<<"[", "o1", ",", "o2", "]">>)>>], TRUE),
    DataResponse("false", [kind |-> "array", items |-> <<ItemText(<<"boom">>)>>], FALSE) }

\* ------------------------------------------------------------------- Init
Init ==
  /\ session = [apiKey |-> "ak-1", sessionId |-> "session-1"]
  /\ pc = [s \in Slots |-> "idle"]
  /\ frame = [s \in Slots |-> NoFrame]
  /\ inflight = [s \in Slots |-> NoRequest]
  /\ dispatched = [s \in Slots |-> 0]
  /\ settlement = [s \in Slots |-> NoSettlement]
  /\ callResult = [s \in Slots |-> NoCall]
  /\ result = [s \in Slots |-> NoResult]

\* ---------------------------------------------------------------- actions
\* variant: the arguments of a call are kept in one shared place
LocalsShared(s) == frame[1]

\* the locals of invocation s (toolName, args, defaultErrorMsg, result)
Locals(s) == frame[s]

\* An operation from its call to the await inside callMcpTool (or to its
\* return, when building the request throws).
Invoke(s, op, p, sessionThrows) ==
  /\ pc[s] = "idle"
  /\ LET args == BuildArgs(op, p)
         b == callMcpToolRequest(session, ToolName(op), args, sessionThrows)
     IN /\ frame' = [frame EXCEPT ![s] = [op |-> op, params |-> p, args |-> args,
                                          sessionThrows |-> sessionThrows]]
        /\ IF b.threw
           THEN LET call == [threw |-> TRUE, result |-> NoCallResult,
                             err |-> callMcpToolCatch(ToolName(op), b.err)]
                IN /\ pc' = [pc EXCEPT ![s] = "done"]
                   /\ callResult' = [callResult EXCEPT ![s] = call]
                   /\ result' = [result EXCEPT ![s] = OpFinish(op, call)]
                   /\ UNCHANGED <<inflight, dispatched>>
           ELSE /\ pc' = [pc EXCEPT ![s] = "awaiting"]
                /\ inflight' = [inflight EXCEPT ![s] = b.request]
                /\ dispatched' = [dispatched EXCEPT ![s] = @ + 1]
                /\ UNCHANGED <<callResult, result>>
  /\ UNCHANGED <<session, settlement>>

OptBools(wide) == IF wide THEN {NoneB, SomeB(FALSE)} ELSE {NoneB}
OptDirs(wide) == IF wide THEN {None, Some(""), Some("/tmp")} ELSE {Some("")}
OptActivities(wide) == IF wide THEN {None, Some(""), Some(".Main")} ELSE {None}
Pids(wide) == IF wide THEN {1, 42} ELSE {42}

getInstalledApps(s, wide) ==
  \E sm \in OptBools(wide), d \in OptBools(wide), i \in OptBools(wide), st \in BOOLEAN :
    Invoke(s, "getInstalledApps",
           [NoParams EXCEPT !.startMenu = sm, !.desktop = d, !.ignoreSystemApps = i], st)

startApp(s, wide) ==
  \E wd \in OptDirs(wide), a \in OptActivities(wide), st \in BOOLEAN :
    Invoke(s, "startApp",
           [NoParams EXCEPT !.startCmd = "run.sh", !.workDirectory = wd, !.activity = a], st)

stopAppByPName(s, wide) ==
  \E st \in BOOLEAN : Invoke(s, "stopAppByPName", [NoParams EXCEPT !.pname = "chrome"], st)

stopAppByPID(s, wide) ==
  \E pid \in Pids(wide), st \in BOOLEAN :
    Invoke(s, "stopAppByPID", [NoParams EXCEPT !.pid = pid], st)

stopAppByCmd(s, wide) ==
  \E st \in BOOLEAN : Invoke(s, "stopAppByCmd", [NoParams EXCEPT !.stopCmd = "kill.sh"], st)

listVisibleApps(s, wide) ==
  \E st \in BOOLEAN : Invoke(s, "listVisibleApps", NoParams, st)

\* the transport settles the promise returned by client.callMcpTool
TransportSettle(s, R) ==
  /\ pc[s] = "awaiting"
  /\ \E r \in R : settlement' = [settlement EXCEPT ![s] = r]
  /\ pc' = [pc EXCEPT ![s] = "settled"]
  /\ UNCHANGED <<session, frame, inflight, dispatched, callResult, result>>

\* the continuation after the await: the rest of callMcpTool and of the
\* operation, up to its return
Resume(s) ==
  /\ pc[s] = "settled"
  /\ LET op == Locals(s).op
         call == callMcpToolResume(ToolName(op), DefaultErrorMsg(op), settlement[s])
     IN /\ callResult' = [callResult EXCEPT ![s] = call]
        /\ result' = [result EXCEPT ![s] = OpFinish(op, call)]
  /\ pc' = [pc EXCEPT ![s] = "done"]
  /\ UNCHANGED <<session, frame, inflight, dispatched, settlement>>

\* the caller takes the returned record; the invocation's locals are gone
Return(s) ==
  /\ pc[s] = "done"
  /\ pc' = [pc EXCEPT ![s] = "idle"]
  /\ frame' = [frame EXCEPT ![s] = NoFrame]
  /\ inflight' = [inflight EXCEPT ![s] = NoRequest]
  /\ dispatched' = [dispatched EXCEPT ![s] = 0]
  /\ settlement' = [settlement EXCEPT ![s] = NoSettlement]
  /\ callResult' = [callResult EXCEPT ![s] = NoCall]
  /\ result' = [result EXCEPT ![s] = NoResult]
  /\ UNCHANGED session

Step(s, wide, R) ==
  \/ getInstalledApps(s, wide)
  \/ startApp(s, wide)
  \/ stopAppByPName(s, wide)
  \/ stopAppByPID(s, wide)
  \/ stopAppByCmd(s, wide)
  \/ listVisibleApps(s, wide)
  \/ TransportSettle(s, R)
  \/ Resume(s)
  \/ Return(s)

\* one invocation at a time, every response shape
Next == \E s \in SeqSlots : Step(s, TRUE, Responses)
Spec == Init /\ [][Next]_vars

\* several invocations in flight on the same Application
NextConc == \E s \in Slots : Step(s, FALSE, SmallResponses)
SpecConc == Init /\ [][NextConc]_vars

\* The event loop runs the continuation of a settled promise.  A step of
\* NextConc takes invocation s from "settled" to "done" exactly when it is
\* Resume(s), so fairness is stated on that change of pc.
ResumeScheduled(s) == pc[s] = "settled" /\ pc' = [pc EXCEPT ![s] = "done"]
SpecLive == Init /\ [][NextConc]_vars /\ \A s \in Slots : WF_pc(ResumeScheduled(s))

\* ------------------------------------------------------------ properties
Done(s) == pc[s] = "done"
GotData(s) == Done(s) /\ settlement[s].kind = "data"

ResponseRequestId(r) == IF r.hasRequestId THEN r.requestId ELSE ""

\* C2 as stated: every response with a data payload and isError = false,
\* whatever its content items, gives success = true and the response's
\* request id.
C2_Original ==
  \A s \in Slots : GotData(s) /\ settlement[s].isError = "false" =>
    /\ result[s].success
    /\ result[s].requestId = ResponseRequestId(settlement[s])

\* the joined text of a successful call is empty, absent, or parses as JSON
TextParses(s) ==
  \/ ~TextContentTruthy(callResult[s].result)
  \/ ~JSONParse(callResult[s].result.textContent).threw

\* C2 amended: for the three stop operations every such response gives
\* success = true with the response's request id; for the three list
\* operations it does so exactly when the joined text is empty, absent or
\* valid JSON, and gives success = false otherwise.
C2_Amended ==
  \A s \in Slots : GotData(s) /\ settlement[s].isError = "false" =>
    IF frame[s].op \notin ListOps \/ TextParses(s)
    THEN /\ result[s].success
         /\ result[s].requestId = ResponseRequestId(settlement[s])
    ELSE ~result[s].success

C2_Witness ==
  \E s \in Slots :
    /\ GotData(s) /\ settlement[s].isError = "false"
    /\ frame[s].op \in ListOps
    /\ TextContentTruthy(callResult[s].result)
    /\ result[s].success /\ result[s].requestId = "req-1"

\* C3: a payload marked isError = true makes callMcpTool raise and the
\* operation return success = false; never a success-shaped result.
C3_IsErrorNeverSucceeds ==
  \A s \in Slots : GotData(s) /\ settlement[s].isError = "true" =>
    /\ callResult[s].threw
    /\ ~result[s].success

\* an error payload without any content was turned into a failure
C3_Witness ==
  \E s \in Slots :
    /\ GotData(s) /\ settlement[s].isError = "true"
    /\ settlement[s].content.kind = "absent"
    /\ callResult[s].threw /\ ~result[s].success

FirstItemHasText(r) ==
  /\ r.content.kind = "array"
  /\ Len(r.content.items) > 0
  /\ r.content.items[1].kind \in {"string", "number"}

ReturnedWithContent(s) ==
  GotData(s) /\ ~callResult[s].threw /\ settlement[s].content.kind = "array"

\* an item with a string text field; withEmpty: the empty string counts
Kept(item, withEmpty) == item.kind = "string" /\ (withEmpty \/ item.text # <<>>)

\* the texts of the kept items of `items`, joined by newline
RECURSIVE JoinedTexts(_, _)
JoinedTexts(items, withEmpty) ==
  IF items = <<>> THEN <<>>
  ELSE LET rest == Tail(items) IN
       IF ~Kept(Head(items), withEmpty) THEN JoinedTexts(rest, withEmpty)
       ELSE IF \E i \in 1..Len(rest) : Kept(rest[i], withEmpty)
            THEN Head(items).text \o <<"\n">> \o JoinedTexts(rest, withEmpty)
            ELSE Head(items).text

\* C6 as stated: for a non-error payload with a content sequence,
\* textContent is set to the newline join of the text of every item that
\* has a string text field, skipping exactly the items that have none.
C6_Original ==
  \A s \in Slots : ReturnedWithContent(s) =>
    /\ callResult[s].result.hasTextContent
    /\ callResult[s].result.textContent =
         JoinedTexts(settlement[s].content.items, TRUE)

\* C6 amended: for a non-error payload with a non-empty content sequence,
\* textContent is the newline join, in order, of the text of every item
\* whose text is a non-empty string; items without text, with a non-string
\* text or with an empty string text are skipped; for an empty content
\* sequence textContent is left unset.
C6_Amended ==
  \A s \in Slots : ReturnedWithContent(s) =>
    IF settlement[s].content.items = <<>>
    THEN ~callResult[s].result.hasTextContent
    ELSE /\ callResult[s].result.hasTextContent
         /\ callResult[s].result.textContent =
              JoinedTexts(settlement[s].content.items, FALSE)

\* two text items were joined with a newline between them
C6_Witness ==
  \E s \in Slots :
    /\ ReturnedWithContent(s)
    /\ Len(settlement[s].content.items) >= 2
    /\ settlement[s].content.items[1] = ItemText(<<"[">>)
    /\ settlement[s].content.items[2] = ItemText(<<"]">>)
    /\ callResult[s].result.textContent = <<"[", "\n", "]">>

\* text that is a JSON array of object literals, possibly with whitespace
NoWs(t) == SelectSeq(t, LAMBDA c : c # "\n")
IsFlatObjectArray(t) ==
  LET u == NoWs(t) IN
  /\ Len(u) >= 2 /\ u[1] = "[" /\ u[Len(u)] = "]"
  /\ \/ Len(u) = 2
     \/ /\ Len(u) % 2 = 1
        /\ \A i \in 2..(Len(u) - 1) :
             IF i % 2 = 0 THEN u[i] \in ObjTokens ELSE u[i] = ","
ObjectLiterals(t) == SelectSeq(t, LAMBDA c : c \in ObjTokens)

ListOpReturned(s) == Done(s) /\ frame[s].op \in ListOps /\ ~callResult[s].threw

\* C7: for the three list operations after a successful call, text that is
\* a JSON array of N records gives data with exactly those N records, field
\* for field and in order; absent or empty text gives the empty array.
C7_RoundTrip ==
  \A s \in Slots : ListOpReturned(s) =>
    LET t == callResult[s].result.textContent IN
    /\ ~TextContentTruthy(callResult[s].result) =>
         result[s].success /\ result[s].data = JArr(<<>>)
    /\ TextContentTruthy(callResult[s].result) /\ IsFlatObjectArray(t) =>
         /\ result[s].success
         /\ result[s].data.t = "arr"
         /\ Len(result[s].data.elems) = Len(ObjectLiterals(t))
         /\ \A k \in 1..Len(ObjectLiterals(t)) :
              result[s].data.elems[k] = DecodeObj(ObjectLiterals(t)[k])

\* an array of two records came back as two entries
C7_Witness ==
  \E s \in Slots :
    /\ ListOpReturned(s) /\ result[s].success
    /\ IsFlatObjectArray(callResult[s].result.textContent)
    /\ Len(result[s].data.elems) = 2
    /\ result[s].data.elems[1] = DecodeObj("o1")
    /\ result[s].data.elems[2] = DecodeObj("o2")

\* the operation-to-tool table
TableToolName ==
  [getInstalledApps |-> "get_installed_apps", startApp |-> "start_app",
   stopAppByPName |-> "stop_app_by_pname", stopAppByPID |-> "stop_app_by_pid",
   stopAppByCmd |-> "stop_app_by_cmd", listVisibleApps |-> "list_visible_apps"]

Provided(opt) == opt.given /\ opt.v # ""
BoolOrTrue(opt) == IF opt.given /\ ~opt.v THEN "false" ELSE "true"

\* the argument text the table prescribes for a call with parameters p
TableArgs(op, p) ==
  CASE op = "getInstalledApps" ->
         <<"{", "\"start_menu\"", ":", BoolOrTrue(p.startMenu), ",",
           "\"desktop\"", ":", BoolOrTrue(p.desktop), ",",
           "\"ignore_system_apps\"", ":", BoolOrTrue(p.ignoreSystemApps), "}">>
    [] op = "startApp" ->
         <<"{", "\"start_cmd\"", ":", "\"" \o p.startCmd \o "\"">>
         \o (IF Provided(p.workDirectory)
             THEN <<",", "\"work_directory\"", ":", "\"" \o p.workDirectory.v \o "\"">>
             ELSE <<>>)
         \o (IF Provided(p.activity)
             THEN <<",", "\"activity\"", ":", "\"" \o p.activity.v \o "\"">>
             ELSE <<>>)
         \o <<"}">>
    [] op = "stopAppByPName" -> <<"{", "\"pname\"", ":", "\"" \o p.pname \o "\"", "}">>
    [] op = "stopAppByPID" -> <<"{", "\"pid\"", ":", ToString(p.pid), "}">>
    [] op = "stopAppByCmd" -> <<"{", "\"stop_cmd\"", ":", "\"" \o p.stopCmd \o "\"", "}">>
    [] op = "listVisibleApps" -> <<"{", "}">>

Sent(s) == pc[s] \in {"awaiting", "settled", "done"} /\ dispatched[s] > 0

\* C8: the request an operation sends carries the tool name and exactly the
\* arguments of the operation-to-tool table; startApp("run.sh", "", "")
\* sends {start_cmd: "run.sh"} only, and getInstalledApps() sends the three
\* flags as true.
C8_RequestPerTable ==
  \A s \in Slots : Sent(s) =>
    LET op == frame[s].op
        p == frame[s].params
    IN /\ inflight[s].name = TableToolName[op]
       /\ inflight[s].args = TableArgs(op, p)
       /\ op = "startApp" /\ ~Provided(p.workDirectory) /\ ~Provided(p.activity) =>
            inflight[s].args = <<"{", "\"start_cmd\"", ":", "\"run.sh\"", "}">>
       /\ op = "getInstalledApps" /\ ~p.startMenu.given /\ ~p.desktop.given
            /\ ~p.ignoreSystemApps.given =>
            inflight[s].args = <<"{", "\"start_menu\"", ":", "true", ",",
                                 "\"desktop\"", ":", "true", ",",
                                 "\"ignore_system_apps\"", ":", "true", "}">>

\* startApp("run.sh", "", "") is in flight with start_cmd as its only key
C8_Witness ==
  \E s \in Slots :
    /\ Sent(s) /\ frame[s].op = "startApp"
    /\ frame[s].params.workDirectory = Some("")
    /\ frame[s].params.activity = Some("")
    /\ inflight[s].args = <<"{", "\"start_cmd\"", ":", "\"run.sh\"", "}">>

Started(s) == pc[s] \in {"awaiting", "settled", "done"}

\* C9: an invocation makes exactly one transport call when its request
\* could be built and none when it could not, a transport call is only
\* made at the start of an invocation (never again after a failure), and
\* once the transport has responded or failed the operation returns.
C9_OneDispatch ==
  /\ [](\A s \in Slots : Started(s) =>
          dispatched[s] = IF frame[s].sessionThrows THEN 0 ELSE 1)
  /\ [][\A s \in Slots : dispatched'[s] > dispatched[s] =>
          pc[s] = "idle" /\ dispatched'[s] = 1]_vars
  /\ \A s \in Slots : (pc[s] = "settled") ~> (pc[s] = "done")

\* a rejected call was answered with a failure after exactly one dispatch
C9_Witness ==
  \E s \in Slots :
    /\ Done(s) /\ settlement[s].kind = "reject"
    /\ dispatched[s] = 1 /\ ~result[s].success

\* the record an invocation returns when it runs alone
RunAlone(f, r) ==
  LET b == callMcpToolRequest(session, ToolName(f.op), BuildArgs(f.op, f.params),
                              f.sessionThrows)
  IN IF b.threw
     THEN FailureResult(f.op, callMcpToolCatch(ToolName(f.op), b.err))
     ELSE OpFinish(f.op, callMcpToolResume(ToolName(f.op), DefaultErrorMsg(f.op), r))

OthersUntouched(s) ==
  \A t \in Slots \ {s} :
    /\ pc'[t] = pc[t] /\ frame'[t] = frame[t] /\ inflight'[t] = inflight[t]
    /\ dispatched'[t] = dispatched[t] /\ settlement'[t] = settlement[t]
    /\ callResult'[t] = callResult[t] /\ result'[t] = result[t]

\* C10: with several operations in flight and responses arriving in any
\* order, each returned record is the one the operation returns when run
\* alone on its own arguments and response, every step touches the state of
\* one invocation only, and the session is never modified.
C10_Isolation ==
  /\ [](\A s \in Slots : Done(s) => result[s] = RunAlone(frame[s], settlement[s]))
  /\ [][session' = session /\ \E s \in Slots : OthersUntouched(s)]_vars

\* two different operations finished after their responses arrived while
\* both were in flight, with different outcomes
C10_Witness ==
  /\ Done(1) /\ Done(2)
  /\ frame[1].op # frame[2].op
  /\ settlement[1].kind = "data" /\ settlement[2].kind = "reject"
  /\ result[1].success /\ ~result[2].success

====
